---- MODULE Spec2Model ----
(***************************************************************************)
(* Model of the AI-chat cog (cogs/aichat.py): the ai_chat_history table,   *)
(* get_history, save_message (insert, commit, trim, commit) and the        *)
(* on_message handler with its await points.                               *)
(*                                                                         *)
(* Two specifications share the store operators:                           *)
(*   Spec      - on_message handlers interleaving on one asyncio loop;     *)
(*   StoreSpec - direct calls of save_message / get_history with           *)
(*               arbitrary (user_id, channel_name) keys.                   *)
(***************************************************************************)
EXTENDS Integers, Sequences, FiniteSets, TLC

(***************************************************************************)
(* Bounds of the model.                                                    *)
(***************************************************************************)
\* aichat.py:8 sets HISTORY_LENGTH = 10; the model runs it scaled down (2 is
\* the value of the specification's own retention scenario).
HISTORY_LENGTH == 2
\* number of inbound message events in Spec
MaxEvents == 2
\* number of direct save_message calls in StoreSpec (on top of the preloaded rows)
MaxCalls == 2
\* number of storage faults injected in one behaviour
MaxFaults == 1

(***************************************************************************)
(* Program constants and input domains.                                    *)
(***************************************************************************)
CHANNEL_NAME == "porozmawiaj-z-andrzejem"
SystemPrompt == [role |-> "system", content |-> <<"s">>]

Users == {"u1", "u2"}
Channels == {CHANNEL_NAME, "inny-kanal"}
Roles == {"user", "assistant"}
\* message.content values: blank, and two texts that strip to the same prompt
Contents == {<<" ">>, <<" ", "a">>, <<"a", " ">>}
\* content of a turn saved by a direct call
TurnContent == <<"t">>
\* choices[0].message.content of a well-formed reply
Replies == {<<"r">>}
Handlers == 1 .. MaxEvents
\* value of running while no handler is inside synchronous code
NoHandler == {}

(***************************************************************************)
(* Pure helpers: str.strip, ORDER BY / LIMIT / OFFSET, reversed.           *)
(***************************************************************************)
RECURSIVE LStrip(_)
LStrip(s) ==
    IF s # <<>> /\ Head(s) = " " THEN LStrip(Tail(s)) ELSE s

RECURSIVE RStrip(_)
RStrip(s) ==
    IF s # <<>> /\ s[Len(s)] = " " THEN RStrip(SubSeq(s, 1, Len(s) - 1)) ELSE s

Strip(s) == RStrip(LStrip(s))

Min(a, b) == IF a <= b THEN a ELSE b

\* variant: WHERE user_id = ? alone
KeyRowsByUser(table, user_id, channel_name) ==
    {r \in table : r.user_id = user_id}

\* WHERE user_id = ? AND channel_name = ?
KeyRows(table, user_id, channel_name) ==
    {r \in table : r.user_id = user_id /\ r.channel_name = channel_name}

\* variant: ORDER BY id ASC
RECURSIVE OrderByIdAsc(_)
OrderByIdAsc(rows) ==
    IF rows = {} THEN <<>>
    ELSE LET low == CHOOSE r \in rows : \A q \in rows : r.id <= q.id
         IN  <<low>> \o OrderByIdAsc(rows \ {low})

\* ORDER BY id DESC
RECURSIVE OrderByIdDesc(_)
OrderByIdDesc(rows) ==
    IF rows = {} THEN <<>>
    ELSE LET top == CHOOSE r \in rows : \A q \in rows : q.id <= r.id
         IN  <<top>> \o OrderByIdDesc(rows \ {top})

\* variant: the query has no LIMIT
NoLimit(s, n) == s

\* LIMIT n
Limit(s, n) == SubSeq(s, 1, Min(n, Len(s)))

\* LIMIT -1 OFFSET n
Offset(s, n) == SubSeq(s, n + 1, Len(s))

\* variant: the rows are not reversed
NotReversed(s) == s

Reversed(s) == [i \in 1 .. Len(s) |-> s[Len(s) + 1 - i]]

\* the id the table gives the next inserted row
NextId(table) ==
    IF table = {} THEN 1
    ELSE 1 + (CHOOSE n \in {r.id : r \in table} : \A r \in table : r.id <= n)

(***************************************************************************)
(* get_history: system prompt, then the newest 2*HISTORY_LENGTH rows of    *)
(* the key, oldest first; a storage fault leaves the system prompt alone.  *)
(***************************************************************************)
SelectRecent(table, user_id, channel_name) ==
    Limit(OrderByIdDesc(KeyRows(table, user_id, channel_name)), HISTORY_LENGTH * 2)

\* variant: the fault strikes after the rows were appended to the history
get_history_late_fault(table, user_id, channel_name, fault) ==
    LET rows == Reversed(SelectRecent(table, user_id, channel_name))
    IN  <<SystemPrompt>> \o
        [i \in 1 .. Len(rows) |-> [role |-> rows[i].role, content |-> rows[i].content]]

get_history(table, user_id, channel_name, fault) ==
    IF fault THEN <<SystemPrompt>>
    ELSE LET rows == Reversed(SelectRecent(table, user_id, channel_name))
         IN  <<SystemPrompt>> \o
             [i \in 1 .. Len(rows) |-> [role |-> rows[i].role, content |-> rows[i].content]]

(***************************************************************************)
(* save_message, statement by statement.                                   *)
(***************************************************************************)
NewRow(table, user_id, channel_name, role, content) ==
    [id |-> NextId(table), user_id |-> user_id, channel_name |-> channel_name,
     role |-> role, content |-> content]

\* INSERT ... ; conn.commit()
InsertRow(table, user_id, channel_name, role, content) ==
    table \cup {NewRow(table, user_id, channel_name, role, content)}

\* variant: OFFSET HISTORY_LENGTH
SelectOldIdsHalfWindow(table, user_id, channel_name) ==
    LET old == Offset(OrderByIdDesc(KeyRows(table, user_id, channel_name)),
                      HISTORY_LENGTH)
    IN  {old[i].id : i \in 1 .. Len(old)}

\* SELECT id ... ORDER BY id DESC LIMIT -1 OFFSET 2*HISTORY_LENGTH
SelectOldIds(table, user_id, channel_name) ==
    LET old == Offset(OrderByIdDesc(KeyRows(table, user_id, channel_name)),
                      HISTORY_LENGTH * 2)
    IN  {old[i].id : i \in 1 .. Len(old)}

\* executemany("DELETE ... WHERE id = ?") ; conn.commit()
DeleteIds(table, ids) == {r \in table : r.id \notin ids}

TrimRows(table, user_id, channel_name) ==
    DeleteIds(table, SelectOldIds(table, user_id, channel_name))

\* what the caller of save_message observes: the except clause prints and the
\* function falls off its end, whether or not a statement raised
SaveOutcome(fault) == [raised |-> "none", value |-> "None"]


(***************************************************************************)
(* State.                                                                  *)
(***************************************************************************)
VARIABLES
    db,          \* committed rows of ai_chat_history
    log,         \* every committed INSERT, in commit order: [row, by]
    faults,      \* storage faults injected so far
    pc,          \* position of each on_message handler
    msg,         \* the message event delivered to a handler not yet started
    user_id,     \* on_message local (line 73)
    prompt,      \* on_message local (line 74)
    channel_name,\* on_message local (line 75)
    history,     \* on_message local (lines 78-79)
    response,    \* on_message local (line 95)
    ai_reply,    \* on_message local (line 97)
    outcome,     \* how each handler ended
    insertFaults,\* per handler, the save_message calls whose INSERT raised
    running,     \* the handler executing synchronous code across steps
    call,        \* StoreSpec: the direct save_message call in progress
    ret,         \* StoreSpec: what the last finished direct call returned
    ncalls,      \* StoreSpec: direct save_message calls made
    gift_codes,     \* GiftSpec: committed giftcode values of table gift_codes
    user_giftcodes, \* GiftSpec: committed rows of table user_giftcodes
    pending,        \* GiftSpec: DELETEs executed on self.conn and not committed
    removed         \* GiftSpec: the last remove_giftcode call and what it returned

locals == <<user_id, prompt, channel_name, history, response, ai_reply>>
handlerVars == <<pc, msg, locals, outcome, insertFaults, running>>
storeVars == <<call, ret, ncalls>>
giftVars == <<gift_codes, user_giftcodes, pending, removed>>
vars == <<db, log, faults, handlerVars, storeVars, giftVars>>

NoMsg == [bot |-> FALSE, guild |-> FALSE, channel |-> "", author |-> "", content |-> <<>>]
\* message events: every message that passes the filters of lines 66-71, and
\* those that fail exactly one of them
Passing == [bot : {FALSE}, guild : {TRUE}, channel : {CHANNEL_NAME}, author : Users,
            content : {c \in Contents : c # <<" ">>}]
Blocked ==
    LET m == [bot |-> FALSE, guild |-> TRUE, channel |-> CHANNEL_NAME, author |-> "u1",
              content |-> <<" ", "a">>]
    IN  {[m EXCEPT !.bot = TRUE], [m EXCEPT !.guild = FALSE],
         [m EXCEPT !.channel = "inny-kanal"], [m EXCEPT !.content = <<" ">>]}
Messages == Passing \cup Blocked
\* response before line 95 has assigned it
NoResponse == [raised |-> FALSE, status_code |-> 0, body |-> [ok |-> FALSE, content |-> <<>>]]
NoCall == [pc |-> "idle", user_id |-> "", channel_name |-> "", role |-> ""]
NoRet == [op |-> "none"]

\* a storage statement may raise while the fault budget lasts
FaultChoices == IF faults < MaxFaults THEN BOOLEAN ELSE {FALSE}
Charge(fault) == IF fault THEN faults + 1 ELSE faults

\* The table outlives the process: a run starts on what earlier runs left, here
\* k whole exchanges of one user, as k earlier events without faults leave them.
PreloadedRow(i) ==
    [id |-> i, user_id |-> "u1", channel_name |-> CHANNEL_NAME,
     role |-> IF i % 2 = 1 THEN "user" ELSE "assistant",
     content |-> IF i % 2 = 1 THEN <<"a">> ELSE <<"r">>]
Preloaded(k) == {PreloadedRow(i) : i \in 1 .. 2 * k}
PreloadedLog(k) == [i \in 1 .. 2 * k |-> [row |-> PreloadedRow(i), by |-> 0]]

\* no handler has run, no direct call was made
Idle ==
    /\ faults = 0
    /\ pc = [h \in Handlers |-> "idle"]
    /\ msg = [h \in Handlers |-> NoMsg]
    /\ user_id = [h \in Handlers |-> ""]
    /\ prompt = [h \in Handlers |-> <<>>]
    /\ channel_name = [h \in Handlers |-> ""]
    /\ history = [h \in Handlers |-> <<>>]
    /\ response = [h \in Handlers |-> NoResponse]
    /\ ai_reply = [h \in Handlers |-> <<>>]
    /\ outcome = [h \in Handlers |-> "none"]
    /\ insertFaults = [h \in Handlers |-> {}]
    /\ running = NoHandler
    /\ call = NoCall
    /\ ret = NoRet
    /\ ncalls = 0

\* GiftOperationsAPI.__init__: a connection with nothing pending on the
\* tables as they were left
NoPending == [gift_codes |-> {}, user_giftcodes |-> {}]
NoGiftResponse == [raised |-> FALSE, status |-> 0, text |-> ""]
NoRemoval == [op |-> "none", giftcode |-> "", from_validation |-> FALSE,
              requested |-> FALSE, response |-> NoGiftResponse,
              committed |-> FALSE, value |-> FALSE]
Connected(codes, rows) ==
    /\ gift_codes = codes
    /\ user_giftcodes = rows
    /\ pending = NoPending
    /\ removed = NoRemoval

Init ==
    /\ \E k \in 0 .. HISTORY_LENGTH :
          /\ db = Preloaded(k)
          /\ log = PreloadedLog(k)
    /\ Idle
    /\ Connected({}, {})

(***************************************************************************)
(* on_message.  Code between two awaits runs without interleaving: the     *)
(* handlers are tasks of one event loop and save_message is synchronous.   *)
(***************************************************************************)
\* variant: save_message yields to the loop between its statements
CanRunAnytime(h) == TRUE

\* a handler may take a step when no other handler is inside synchronous code
CanRun(h) == running \subseteq {h}

\* variant: the blank-content test of lines 70-71 is missing
IgnoredUnlessBlank(m) ==
    \/ m.bot \/ ~m.guild
    \/ m.channel # CHANNEL_NAME

\* lines 66-71
Ignored(m) ==
    \/ m.bot \/ ~m.guild
    \/ m.channel # CHANNEL_NAME
    \/ Strip(m.content) = <<>>

\* the gateway dispatches the next message event
Deliver(h) ==
    /\ running = NoHandler
    /\ pc[h] = "idle"
    /\ \A g \in Handlers : g < h => pc[g] \notin {"idle", "delivered"}
    /\ \E m \in Messages :
          msg' = [msg EXCEPT ![h] = m]
    /\ pc' = [pc EXCEPT ![h] = "delivered"]
    /\ UNCHANGED <<db, log, faults, locals, outcome, insertFaults, running, storeVars, giftVars>>

\* on_message returns (or an exception leaves it): its locals are gone
Return(h) ==
    /\ pc' = [pc EXCEPT ![h] = "done"]
    /\ user_id' = [user_id EXCEPT ![h] = ""]
    /\ prompt' = [prompt EXCEPT ![h] = <<>>]
    /\ channel_name' = [channel_name EXCEPT ![h] = ""]
    /\ history' = [history EXCEPT ![h] = <<>>]
    /\ response' = [response EXCEPT ![h] = NoResponse]
    /\ ai_reply' = [ai_reply EXCEPT ![h] = <<>>]

\* lines 66-71: the event is filtered out
OnMessageIgnore(h) ==
    /\ CanRun(h)
    /\ pc[h] = "delivered"
    /\ Ignored(msg[h])
    /\ Return(h)
    /\ outcome' = [outcome EXCEPT ![h] = "ignored"]
    /\ msg' = [msg EXCEPT ![h] = NoMsg]
    /\ UNCHANGED <<db, log, faults, insertFaults, running, storeVars, giftVars>>

\* lines 73-81: locals, get_history, append the prompt, await typing()
OnMessageStart(h) ==
    /\ CanRun(h)
    /\ pc[h] = "delivered"
    /\ ~Ignored(msg[h])
    /\ \E fault \in FaultChoices :
          /\ history' = [history EXCEPT ![h] =
                Append(get_history(db, msg[h].author, msg[h].channel, fault),
                       [role |-> "user", content |-> Strip(msg[h].content)])]
          /\ faults' = Charge(fault)
    /\ user_id' = [user_id EXCEPT ![h] = msg[h].author]
    /\ prompt' = [prompt EXCEPT ![h] = Strip(msg[h].content)]
    /\ channel_name' = [channel_name EXCEPT ![h] = msg[h].channel]
    /\ msg' = [msg EXCEPT ![h] = NoMsg]
    /\ pc' = [pc EXCEPT ![h] = "typing"]
    /\ UNCHANGED <<db, log, response, ai_reply, outcome, insertFaults, running, storeVars, giftVars>>

\* line 81 raises: the exception leaves on_message (it is outside the try)
TypingRaises(h) ==
    /\ CanRun(h)
    /\ pc[h] = "typing"
    /\ Return(h)
    /\ outcome' = [outcome EXCEPT ![h] = "exception"]
    /\ UNCHANGED <<db, log, faults, msg, insertFaults, running, storeVars, giftVars>>

\* what requests.post can give back
StatusCodes == {200, 500}
Bodies == {[ok |-> TRUE, content |-> r] : r \in Replies}
              \cup {[ok |-> FALSE, content |-> <<>>]}
Responses == {[raised |-> FALSE, status_code |-> s, body |-> b] :
                 s \in StatusCodes, b \in Bodies}
              \cup {[raised |-> TRUE, status_code |-> 0, body |-> [ok |-> FALSE, content |-> <<>>]]}

\* lines 94-105: where the handler awaits next, given what requests.post gave
AfterPost(r) ==
    IF r.raised THEN "reply_tech"
    ELSE IF r.status_code = 200
         THEN IF r.body.ok THEN "reply_ai" ELSE "reply_tech"
         ELSE "reply_http"

\* lines 81-98/103/105: typing() returns, requests.post runs (blocking), the
\* handler awaits one of its three message.reply calls
Post(h) ==
    /\ CanRun(h)
    /\ pc[h] = "typing"
    /\ \E r \in Responses :
          /\ pc' = [pc EXCEPT ![h] = AfterPost(r)]
          /\ response' = [response EXCEPT ![h] = IF r.raised THEN NoResponse ELSE r]
          /\ ai_reply' = [ai_reply EXCEPT ![h] =
                IF AfterPost(r) = "reply_ai" THEN r.body.content ELSE ai_reply[h]]
    /\ UNCHANGED <<db, log, faults, msg, user_id, prompt, channel_name, history,
                   outcome, insertFaults, running, storeVars, giftVars>>

\* line 98 returns: the handler goes on to line 99 without yielding
ReplyAiSent(h) ==
    /\ CanRun(h)
    /\ pc[h] = "reply_ai"
    /\ pc' = [pc EXCEPT ![h] = "save_user"]
    /\ outcome' = [outcome EXCEPT ![h] = "replied"]
    /\ running' = {h}
    /\ UNCHANGED <<db, log, faults, msg, locals, insertFaults, storeVars, giftVars>>

\* line 98 or line 103 raises: except clause, await the reply of line 105
ReplyRaises(h) ==
    /\ CanRun(h)
    /\ pc[h] \in {"reply_ai", "reply_http"}
    /\ pc' = [pc EXCEPT ![h] = "reply_tech"]
    /\ UNCHANGED <<db, log, faults, msg, locals, outcome, insertFaults, running,
                   storeVars, giftVars>>

\* line 103 returns
ReplyHttpSent(h) ==
    /\ CanRun(h)
    /\ pc[h] = "reply_http"
    /\ Return(h)
    /\ outcome' = [outcome EXCEPT ![h] = "http_error"]
    /\ UNCHANGED <<db, log, faults, msg, insertFaults, running, storeVars, giftVars>>

\* line 105 returns or raises
ReplyTechDone(h) ==
    /\ CanRun(h)
    /\ pc[h] = "reply_tech"
    /\ Return(h)
    /\ outcome' = [outcome EXCEPT ![h] = "exception"]
    /\ UNCHANGED <<db, log, faults, msg, insertFaults, running, storeVars, giftVars>>

\* the role and content of the save_message call a handler is in (lines 99, 100)
SaveRole(h) == IF pc[h] \in {"save_user", "trim_user"} THEN "user" ELSE "assistant"
SaveContent(h) == IF pc[h] \in {"save_user", "trim_user"} THEN prompt[h] ELSE ai_reply[h]
\* variant: the handler returns after its first save_message call
AfterSaveOnlyUser(h) == "done"

\* where the handler is once the save_message call it is in has returned
AfterSave(h) == IF pc[h] \in {"save_user", "trim_user"} THEN "save_asst" ELSE "done"

\* save_message returns to on_message
SaveReturns(h) ==
    IF AfterSave(h) = "done"
    THEN Return(h) /\ running' = NoHandler
    ELSE pc' = [pc EXCEPT ![h] = AfterSave(h)] /\ UNCHANGED <<locals, running>>

\* save_message lines 42-48: connect, INSERT, commit; a fault goes to the
\* except clause and the call returns
SaveInsert(h) ==
    /\ CanRun(h)
    /\ pc[h] \in {"save_user", "save_asst"}
    /\ \E fault \in FaultChoices :
          /\ faults' = Charge(fault)
          /\ IF fault
             THEN /\ UNCHANGED <<db, log>>
                  /\ insertFaults' = [insertFaults EXCEPT ![h] = @ \cup {SaveRole(h)}]
                  /\ SaveReturns(h)
             ELSE /\ db' = InsertRow(db, user_id[h], channel_name[h], SaveRole(h), SaveContent(h))
                  /\ log' = Append(log, [row |-> NewRow(db, user_id[h], channel_name[h],
                                                        SaveRole(h), SaveContent(h)),
                                         by |-> h])
                  /\ pc' = [pc EXCEPT ![h] =
                        IF pc[h] = "save_user" THEN "trim_user" ELSE "trim_asst"]
                  /\ UNCHANGED <<insertFaults, running, locals>>
    /\ UNCHANGED <<msg, outcome, storeVars, giftVars>>

\* save_message lines 49-60: SELECT the old ids, DELETE them, commit; a fault
\* goes to the except clause with nothing deleted
SaveTrim(h) ==
    /\ CanRun(h)
    /\ pc[h] \in {"trim_user", "trim_asst"}
    /\ \E fault \in FaultChoices :
          /\ faults' = Charge(fault)
          /\ db' = IF fault THEN db ELSE TrimRows(db, user_id[h], channel_name[h])
    /\ SaveReturns(h)
    /\ UNCHANGED <<log, msg, outcome, insertFaults, storeVars, giftVars>>

Next ==
    \E h \in Handlers :
        \/ Deliver(h)
        \/ OnMessageIgnore(h)
        \/ OnMessageStart(h)
        \/ TypingRaises(h)
        \/ Post(h)
        \/ ReplyAiSent(h)
        \/ ReplyRaises(h)
        \/ ReplyHttpSent(h)
        \/ ReplyTechDone(h)
        \/ SaveInsert(h)
        \/ SaveTrim(h)

Spec == Init /\ [][Next]_vars

(***************************************************************************)
(* Direct calls of the store: save_message and get_history with any key.   *)
(***************************************************************************)
SaveReturn(user, channel, fault) ==
    [op |-> "save", user_id |-> user, channel_name |-> channel, fault |-> fault,
     raised |-> SaveOutcome(fault).raised, value |-> <<>>]

\* save_message lines 40-48 of a direct call
StoreInsert(user, channel, role) ==
    /\ call.pc = "idle"
    /\ ncalls < MaxCalls
    /\ ncalls' = ncalls + 1
    /\ \E fault \in FaultChoices :
          /\ faults' = Charge(fault)
          /\ IF fault
             THEN /\ UNCHANGED <<db, log, call>>
                  /\ ret' = SaveReturn(user, channel, "insert")
             ELSE /\ db' = InsertRow(db, user, channel, role, TurnContent)
                  /\ log' = Append(log, [row |-> NewRow(db, user, channel, role, TurnContent),
                                         by |-> 0])
                  /\ call' = [pc |-> "trim", user_id |-> user, channel_name |-> channel,
                              role |-> role]
                  /\ ret' = NoRet
    /\ UNCHANGED <<handlerVars, giftVars>>

\* save_message lines 49-62 of a direct call
StoreTrim ==
    /\ call.pc = "trim"
    /\ \E fault \in FaultChoices :
          /\ faults' = Charge(fault)
          /\ db' = IF fault THEN db ELSE TrimRows(db, call.user_id, call.channel_name)
          /\ ret' = SaveReturn(call.user_id, call.channel_name,
                               IF fault THEN "trim" ELSE "none")
    /\ call' = NoCall
    /\ UNCHANGED <<log, ncalls, handlerVars, giftVars>>

\* the call before this one was a get_history of the same key
FollowsGet(user, channel) ==
    ret.op = "get" /\ ret.user_id = user /\ ret.channel_name = channel

\* get_history lines 17-38 of a direct call
StoreGet(user, channel) ==
    /\ call.pc = "idle"
    /\ \E fault \in FaultChoices :
          /\ faults' = Charge(fault)
          /\ ret' = [op |-> "get", user_id |-> user, channel_name |-> channel,
                     fault |-> IF fault THEN "select" ELSE "none", raised |-> "none",
                     value |-> get_history(db, user, channel, fault),
                     repeat |-> FollowsGet(user, channel)]
    /\ UNCHANGED <<db, log, call, ncalls, handlerVars, giftVars>>

StoreNext ==
    \/ \E user \in Users, channel \in Channels, role \in Roles :
          StoreInsert(user, channel, role)
    \/ StoreTrim
    \/ \E user \in Users, channel \in Channels : StoreGet(user, channel)

StoreSpec == Init /\ [][StoreNext]_vars

(***************************************************************************)
(* GiftOperationsAPI.remove_giftcode.  The object keeps one connection     *)
(* (self.conn, self.cursor) for its whole life: a DELETE that was executed *)
(* and not committed stays pending on it until some later commit.          *)
(***************************************************************************)
Codes == {"g1", "g2"}
GiftRows == [user : {"u1"}, giftcode : Codes]

\* bodies the remote API may answer with
EmptyText == ""
SuccessObject == "{\"success\": true}"
ErrorObject == "{\"error\": \"not found\"}"
SuccessArray == "[\"success\"]"
UnsuccessfulString == "\"unsuccessful\""
NumberText == "5"
HtmlText == "<html>"
ResponseTexts == {EmptyText, SuccessObject, ErrorObject, SuccessArray,
                  UnsuccessfulString, NumberText, HtmlText}

\* session.delete raises, or answers with a status and a body
GiftResponses ==
    {[raised |-> TRUE, status |-> 0, text |-> ""]}
        \cup {[raised |-> FALSE, status |-> st, text |-> t] :
                 st \in {200, 404}, t \in ResponseTexts}

\* json.loads (line 76): the value parsed, or raised for a text that is not JSON
NotJson == [raised |-> TRUE, type |-> "", keys |-> {}, items |-> {}, chars |-> <<>>]
Parsed(type, keys, items, chars) ==
    [raised |-> FALSE, type |-> type, keys |-> keys, items |-> items, chars |-> chars]
json_loads(text) ==
    CASE text = SuccessObject -> Parsed("dict", {"success"}, {}, <<>>)
      [] text = ErrorObject -> Parsed("dict", {"error"}, {}, <<>>)
      [] text = SuccessArray -> Parsed("list", {}, {"success"}, <<>>)
      [] text = UnsuccessfulString ->
            Parsed("str", {}, {}, <<"u", "n", "s", "u", "c", "c", "e", "s", "s", "f", "u", "l">>)
      [] text = NumberText -> Parsed("int", {}, {}, <<>>)
      [] OTHER -> NotJson

\* str.__contains__: sub occurs in s
Contains(s, sub) ==
    \E i \in 0 .. Len(s) - Len(sub) :
        \A j \in 1 .. Len(sub) : s[i + j] = sub[j]

\* line 82, 'success' in result: a key of a dict, an item of a list, a
\* substring of a str; TypeError for a value that is no container
success(result) ==
    CASE result.type = "dict" -> [raised |-> FALSE, value |-> "success" \in result.keys]
      [] result.type = "list" -> [raised |-> FALSE, value |-> "success" \in result.items]
      [] result.type = "str" ->
            [raised |-> FALSE,
             value |-> Contains(result.chars, <<"s", "u", "c", "c", "e", "s", "s">>)]
      [] OTHER -> [raised |-> TRUE, value |-> FALSE]

\* lines 71-93: whether the call goes on to the DELETEs of lines 84-86
ReachesDelete(r) ==
    /\ ~r.raised
    /\ r.status = 200
    /\ r.text # EmptyText
    /\ ~json_loads(r.text).raised
    /\ ~success(json_loads(r.text)).raised
    /\ success(json_loads(r.text)).value

\* where a storage fault may strike in lines 84-86
DbFaults == {"none", "delete_gift_codes", "delete_user_giftcodes", "commit"}

\* lines 84-85: the DELETEs executed before the fault, added to those pending
Executed(giftcode, dbfault) ==
    [gift_codes |-> IF dbfault = "delete_gift_codes" THEN pending.gift_codes
                    ELSE pending.gift_codes \cup {giftcode},
     user_giftcodes |-> IF dbfault \in {"delete_gift_codes", "delete_user_giftcodes"}
                        THEN pending.user_giftcodes
                        ELSE pending.user_giftcodes \cup {giftcode}]

\* line 86: self.conn.commit() makes every pending DELETE durable
Commit(giftcode) ==
    /\ gift_codes' = gift_codes \ Executed(giftcode, "none").gift_codes
    /\ user_giftcodes' =
          {row \in user_giftcodes : row.giftcode \notin Executed(giftcode, "none").user_giftcodes}
    /\ pending' = NoPending

Removal(giftcode, from_validation, requested, r, committed, value) ==
    [op |-> "remove", giftcode |-> giftcode, from_validation |-> from_validation,
     requested |-> requested, response |-> r, committed |-> committed, value |-> value]

\* lines 55-96
remove_giftcode(giftcode, from_validation) ==
    /\ IF ~from_validation
       THEN /\ removed' = Removal(giftcode, from_validation, FALSE, NoGiftResponse, FALSE, FALSE)
            /\ UNCHANGED <<gift_codes, user_giftcodes, pending>>
       ELSE \E r \in GiftResponses :
               IF ~ReachesDelete(r)
               THEN /\ removed' = Removal(giftcode, from_validation, TRUE, r, FALSE, FALSE)
                    /\ UNCHANGED <<gift_codes, user_giftcodes, pending>>
               ELSE \E dbfault \in DbFaults :
                       IF dbfault = "none"
                       THEN /\ Commit(giftcode)
                            /\ removed' = Removal(giftcode, from_validation, TRUE, r, TRUE, TRUE)
                       ELSE /\ pending' = Executed(giftcode, dbfault)
                            /\ removed' = Removal(giftcode, from_validation, TRUE, r, FALSE, FALSE)
                            /\ UNCHANGED <<gift_codes, user_giftcodes>>
    /\ UNCHANGED <<db, log, faults, handlerVars, storeVars>>

GiftInit ==
    /\ db = {} /\ log = <<>>
    /\ Idle
    /\ \E codes \in SUBSET Codes, rows \in SUBSET GiftRows : Connected(codes, rows)

GiftNext ==
    \E giftcode \in Codes, from_validation \in BOOLEAN :
        remove_giftcode(giftcode, from_validation)

GiftSpec == GiftInit /\ [][GiftNext]_vars

(***************************************************************************)
(* Vocabulary of the claims.                                               *)
(***************************************************************************)
Window == 2 * HISTORY_LENGTH
Turn(r) == [role |-> r.role, content |-> r.content]
Count(user, channel) == Cardinality(KeyRows(db, user, channel))
LogRows == {log[i].row : i \in 1 .. Len(log)}

\* the committed INSERTs of one key, in commit order
LogOfKey(user, channel) ==
    LET OfKey(e) == e.row.user_id = user /\ e.row.channel_name = channel
    IN  SelectSeq(log, OfKey)

\* the last min(n, Window) rows appended to a key
LastAppended(user, channel) ==
    LET l == LogOfKey(user, channel)
        n == Len(l)
        m == Min(n, Window)
    IN  [i \in 1 .. m |-> l[n - m + i].row]

\* the stored turns get_history gives for the key when it does not fault
Retrievable(user, channel) == Tail(get_history(db, user, channel, FALSE))

\* the rows one handler's event has appended, in commit order
AppendedBy(h) ==
    LET ByH(e) == e.by = h
        l == SelectSeq(log, ByH)
    IN  [i \in 1 .. Len(l) |-> l[i].row]

InSave(h) == pc[h] \in {"save_user", "trim_user", "save_asst", "trim_asst"}

(***************************************************************************)
(* C1  After each save_message call returns, the key it wrote holds at     *)
(* most 2 * HISTORY_LENGTH rows.  Violated: the INSERT is committed on its *)
(* own (line 48), so a fault in the trim leaves the extra row behind.      *)
(***************************************************************************)
C1_BoundedAfterReturn ==
    ret.op = "save" => Count(ret.user_id, ret.channel_name) <= Window

(***************************************************************************)
(* C2  After a save_message call that completed without a fault, the turns *)
(* retrievable for its key are exactly the last min(n, 2 * HISTORY_LENGTH) *)
(* turns appended to the key, in append order, and these are the rows the  *)
(* table holds for the key (so nothing is deleted at or below the window). *)
(***************************************************************************)
C2_LastWindowRetrievable ==
    (ret.op = "save" /\ ret.fault = "none") =>
        LET kept == LastAppended(ret.user_id, ret.channel_name)
        IN  /\ KeyRows(db, ret.user_id, ret.channel_name)
                 = {kept[i] : i \in 1 .. Len(kept)}
            /\ Retrievable(ret.user_id, ret.channel_name)
                 = [i \in 1 .. Len(kept) |-> Turn(kept[i])]

\* six turns u, a, u, a, u, a appended to one key with window 4 (in general
\* Window + 2 turns): the last Window of them are left
C2_Witness ==
    /\ ret.op = "save" /\ ret.fault = "none" /\ faults = 0
    /\ Len(LogOfKey(ret.user_id, ret.channel_name)) = Window + 2
    /\ Count(ret.user_id, ret.channel_name) = Window
    /\ \A i \in 1 .. Window + 2 :
          LogOfKey(ret.user_id, ret.channel_name)[i].row.role
             = IF i % 2 = 1 THEN "user" ELSE "assistant"

(***************************************************************************)
(* C3  No committed state of the table holds more than                     *)
(* 2 * HISTORY_LENGTH rows for a key (insert and trim are one atomic       *)
(* step).  Violated: save_message commits between the two.                 *)
(***************************************************************************)
C3_NoCommittedOverflow ==
    \A user \in Users, channel \in Channels : Count(user, channel) <= Window

(***************************************************************************)
(* C4  A save_message call hit by a storage fault raises                   *)
(* StorageUnavailable to its caller.  Violated: the except clause of lines *)
(* 61-62 prints and the call returns as a successful one does.             *)
(***************************************************************************)
C4_WriteFaultSurfaced ==
    (ret.op = "save" /\ ret.fault # "none") => ret.raised = "StorageUnavailable"

(***************************************************************************)
(* C5  A get_history call hit by a storage fault raises nothing, returns   *)
(* the system prompt alone and leaves the table as it was.                 *)
(***************************************************************************)
C5_ReadFaultDegrades ==
    [][(ret'.op = "get" /\ ret'.fault # "none") =>
          /\ ret'.raised = "none"
          /\ ret'.value = <<SystemPrompt>>
          /\ db' = db]_vars

\* a faulted read of a key that has stored turns
C5_Witness ==
    /\ ret.op = "get" /\ ret.fault # "none"
    /\ Count(ret.user_id, ret.channel_name) > 0

(***************************************************************************)
(* C6  get_history without a fault returns the system prompt followed by   *)
(* the min(count, 2 * HISTORY_LENGTH) newest rows of exactly the key asked *)
(* for, oldest first: a kept row with k newer rows of its key stands k     *)
(* places before the end.  A key without rows gives the system prompt      *)
(* alone.                                                                  *)
(***************************************************************************)
C6_RecentOldestFirst ==
    (ret.op = "get" /\ ret.fault = "none") =>
        LET rows == KeyRows(db, ret.user_id, ret.channel_name)
            Newer(r) == Cardinality({q \in rows : q.id > r.id})
            kept == {r \in rows : Newer(r) < Window}
            n == Cardinality(kept)
        IN  /\ ret.raised = "none"
            /\ n = Min(Cardinality(rows), Window)
            /\ Len(ret.value) = n + 1
            /\ ret.value[1] = SystemPrompt
            /\ \A r \in kept : ret.value[1 + n - Newer(r)] = Turn(r)

\* a read of a key holding more rows than the window, next to other keys' rows
C6_Witness ==
    /\ ret.op = "get" /\ ret.fault = "none"
    /\ Count(ret.user_id, ret.channel_name) > Window
    /\ \E r \in db : r.user_id # ret.user_id \/ r.channel_name # ret.channel_name

(***************************************************************************)
(* C7  In every state, for each key the deleted turns are older than every *)
(* surviving turn, and every surviving row is a row as it was inserted     *)
(* (same id, role and content).                                            *)
(***************************************************************************)
C7_OldestFirstUnchanged ==
    /\ db \subseteq LogRows
    /\ \A r \in LogRows \ db, q \in LogRows :
          (q.user_id = r.user_id /\ q.channel_name = r.channel_name /\ q.id < r.id)
             => q \notin db

\* a trim has deleted turns of a key and left newer ones
C7_Witness ==
    \E r \in LogRows \ db : \E q \in db :
        q.user_id = r.user_id /\ q.channel_name = r.channel_name

(***************************************************************************)
(* C8  A step of save_message on one key (insert or trim) leaves the rows  *)
(* of every other key as they were.                                        *)
(***************************************************************************)
C8_OtherKeysUntouched ==
    [][\A user \in Users, channel \in Channels :
          KeyRows(db', user, channel) # KeyRows(db, user, channel) =>
             \/ call.pc = "trim" /\ user = call.user_id /\ channel = call.channel_name
             \/ call.pc = "idle" /\ user = call'.user_id /\ channel = call'.channel_name]_vars

\* a save on (u1, CHANNEL_NAME) has trimmed that key while another key of the
\* same user holds rows
C8_Witness ==
    /\ ret.op = "save" /\ ret.fault = "none"
    /\ ret.user_id = "u1" /\ ret.channel_name = CHANNEL_NAME
    /\ \E r \in LogRows \ db : r.user_id = "u1" /\ r.channel_name = CHANNEL_NAME
    /\ Count("u1", "inny-kanal") > 0

(***************************************************************************)
(* C9  Under every interleaving of on_message handlers at most one handler *)
(* is inside save_message's statements at a time (none starts between      *)
(* another's insert and trim), and ids rise in the order of the inserts.   *)
(***************************************************************************)
C9_SavesSerialized ==
    /\ \A h1, h2 \in Handlers : (InSave(h1) /\ InSave(h2)) => h1 = h2
    /\ \A i, j \in 1 .. Len(log) : i < j => log[i].row.id < log[j].row.id

\* a handler is between its insert and its trim while another handler of the
\* same key has its reply and only waits to be resumed
C9_Witness ==
    \E h1, h2 \in Handlers :
        /\ pc[h1] = "trim_user" /\ pc[h2] = "reply_ai"
        /\ user_id[h1] = user_id[h2] /\ channel_name[h1] = channel_name[h2]

ExpectedTurns(h, failed) ==
    (IF "user" \in failed THEN <<>>
     ELSE <<[user_id |-> user_id[h], channel_name |-> channel_name[h],
             role |-> "user", content |-> prompt[h]]>>)
    \o
    (IF "assistant" \in failed THEN <<>>
     ELSE <<[user_id |-> user_id[h], channel_name |-> channel_name[h],
             role |-> "assistant", content |-> ai_reply[h]]>>)

KeyedTurn(r) ==
    [user_id |-> r.user_id, channel_name |-> r.channel_name, role |-> r.role,
     content |-> r.content]

C11_ReadRepeatable ==
    [][ret'.op = "get" =>
          /\ db' = db
          /\ ret'.repeat => ret'.value = ret.value]_vars

(***************************************************************************)
(* C11 (amended)  get_history never changes the table, and two consecutive *)
(* get_history calls for one key with no save_message between them return  *)
(* identical results unless exactly one of them is hit by a storage fault: *)
(* that one returns the system prompt alone, the other the key's stored    *)
(* turns as well.                                                          *)
(***************************************************************************)
C11_ReadRepeatableUnlessFault ==
    [][ret'.op = "get" =>
          /\ db' = db
          /\ ret'.repeat =>
                (ret'.value = ret.value
                    <=> \/ ret'.fault = ret.fault
                        \/ Count(ret.user_id, ret.channel_name) = 0)]_vars

\* a second read of a key that has stored turns, neither read faulted
C11_Witness ==
    /\ ret.op = "get" /\ ret.repeat /\ faults = 0
    /\ Count(ret.user_id, ret.channel_name) > 0
    /\ Len(ret.value) > 1

(***************************************************************************)
(* C12  An event whose author is a bot, that has no guild, whose channel   *)
(* name differs from CHANNEL_NAME, or whose content is blank after         *)
(* stripping is ignored: its handler ends at once, having read no history, *)
(* made no chat-completion request, sent no reply and left the table       *)
(* untouched.                                                              *)
(***************************************************************************)
AllSpaces(c) == \A i \in 1 .. Len(c) : c[i] = " "

Filtered(m) ==
    \/ m.bot
    \/ ~m.guild
    \/ m.channel # CHANNEL_NAME
    \/ AllSpaces(m.content)

C12_FilteredIgnored ==
    [][\A h \in Handlers :
          (pc[h] = "delivered" /\ Filtered(msg[h]) /\ pc'[h] # pc[h]) =>
              /\ pc'[h] = "done"
              /\ outcome'[h] = "ignored"
              /\ history'[h] = <<>>
              /\ response'[h] = NoResponse
              /\ faults' = faults
              /\ db' = db
              /\ log' = log]_vars

\* an event with blank content was ignored after an earlier event left turns
C12_Witness ==
    \E h \in Handlers :
        /\ outcome[h] = "ignored" /\ pc[h] = "done"
        /\ \E i \in 1 .. Len(log) : log[i].by # 0

(***************************************************************************)
(* C13  The history a handler sends is current when it is sent: while a    *)
(* handler is between its get_history call (line 78) and its               *)
(* chat-completion request (line 95), no other handler appends a turn to   *)
(* the handler's key.                                                      *)
(***************************************************************************)
C13_HistoryCurrentAtSend ==
    [][\A h \in Handlers :
          (pc[h] = "typing" /\ Len(log') > Len(log)) =>
              <<log'[Len(log')].row.user_id, log'[Len(log')].row.channel_name>>
                  # <<user_id[h], channel_name[h]>>]_vars

(***************************************************************************)
(* C14  Without storage faults, whenever a handler can read the table (no  *)
(* handler is inside its two save_message calls), each key's stored turns  *)
(* form whole exchanges: their number is even, and in id order they go     *)
(* user, assistant, user, assistant, ..., each user turn directly followed *)
(* by the assistant turn that the same event appended.                     *)
(***************************************************************************)
StoredOldestFirst(user, channel) == Reversed(OrderByIdDesc(KeyRows(db, user, channel)))

\* the event whose handler inserted row r
EventOf(r) == log[CHOOSE i \in 1 .. Len(log) : log[i].row = r].by

WholeExchanges(user, channel) ==
    LET rows == StoredOldestFirst(user, channel)
    IN  /\ Len(rows) % 2 = 0
        /\ \A j \in 1 .. Len(rows) :
              IF j % 2 = 1
              THEN /\ rows[j].role = "user"
                   /\ j < Len(rows)
                   /\ rows[j + 1].role = "assistant"
                   /\ rows[j + 1].id = rows[j].id + 1
                   /\ EventOf(rows[j + 1]) = EventOf(rows[j])
              ELSE rows[j].role = "assistant"

C14_WholeExchangesAtAwaits ==
    (faults = 0 /\ running = NoHandler) =>
        \A user \in Users : WholeExchanges(user, CHANNEL_NAME)

\* two events of one user answered to the end, the older turns trimmed away
C14_Witness ==
    /\ faults = 0 /\ running = NoHandler
    /\ \A h \in Handlers : pc[h] = "done" /\ outcome[h] = "replied"
    /\ Count("u1", CHANNEL_NAME) = Window
    /\ LogRows \ db # {}
    /\ Len(AppendedBy(1)) = 2 /\ Len(AppendedBy(2)) = 2
    /\ AppendedBy(1)[1].user_id = "u1" /\ AppendedBy(2)[1].user_id = "u1"

(***************************************************************************)
(* C15  The message list on_message sends to the chat model starts with    *)
(* the one system prompt, ends with the new user prompt, and holds at most *)
(* 2 * HISTORY_LENGTH stored turns in between, so at most                  *)
(* 2 * HISTORY_LENGTH + 2 entries, also when the table holds more than     *)
(* 2 * HISTORY_LENGTH rows of the key.                                     *)
(***************************************************************************)
\* the handler has built the list of lines 78-79 and not yet returned
HasMessages(h) == history[h] # <<>>

C15_MessagesFramed ==
    \A h \in Handlers :
        HasMessages(h) =>
            LET messages == history[h]
                n == Len(messages)
            IN  /\ n >= 2 /\ n <= Window + 2
                /\ messages[1] = SystemPrompt
                /\ messages[n] = [role |-> "user", content |-> prompt[h]]
                /\ \A i \in 2 .. n - 1 : messages[i].role \in {"user", "assistant"}

\* a request was sent with a full window while the key holds Window + 1 rows
C15_Witness ==
    \E h \in Handlers :
        /\ pc[h] \in {"reply_ai", "reply_http", "reply_tech"}
        /\ Count(user_id[h], channel_name[h]) > Window
        /\ Len(history[h]) = Window + 2

(***************************************************************************)
(* C16  remove_giftcode returns True exactly when from_validation is true, *)
(* the remote DELETE answered status 200 with a non-empty JSON body        *)
(* containing the key 'success', and the code's rows were deleted from     *)
(* both tables and committed; otherwise it returns False and the committed *)
(* contents of both tables are unchanged; with from_validation false no    *)
(* remote request is made.                                                 *)
(***************************************************************************)
\* the body is a JSON object that has the key 'success'
HasSuccessKey(text) ==
    text \in {SuccessObject}

AnsweredSuccess(r) ==
    ~r.raised /\ r.status = 200 /\ r.text # "" /\ HasSuccessKey(r.text)

C16_TrueIffRemoved ==
    [][removed'.op = "remove" =>
          /\ removed'.value <=>
                /\ removed'.from_validation
                /\ AnsweredSuccess(removed'.response)
                /\ removed'.committed
                /\ removed'.giftcode \notin gift_codes'
                /\ \A row \in user_giftcodes' : row.giftcode # removed'.giftcode
          /\ ~removed'.value =>
                /\ gift_codes' = gift_codes
                /\ user_giftcodes' = user_giftcodes
          /\ ~removed'.from_validation => ~removed'.requested]_vars

====
